---- MODULE Spec2Model ----
(***************************************************************************)
(* Model of the encrypted conversational-state subsystem of nous:          *)
(*   - EncryptionService (backend/app/services/encryption.py)              *)
(*   - AIService history optimisation and reflection turn                  *)
(*     (backend/app/services/ai.py)                                        *)
(*   - the chat turn handlers (backend/app/routes/chat.py,                 *)
(*     backend/server.py)                                                  *)
(*   - the State Analyzer's parser and StateMetrics                        *)
(*     (backend/app/services/ai.py, backend/app/models/state.py)           *)
(*   - the notes routes (backend/app/routes/notes.py)                      *)
(*   - registration (backend/app/routes/auth.py)                           *)
(*                                                                         *)
(* Text is a sequence of symbols.  A symbol is either one character        *)
(* (k = "chr") or the whole base64 text of one Fernet envelope             *)
(* (k = "tok"), which records the key that authenticates it, the random    *)
(* IV drawn for it and the plaintext it carries.  Python's None is the     *)
(* one-symbol text NoneV.  Lists are sequences, dicts are functions from   *)
(* field names to values.                                                  *)
(***************************************************************************)
EXTENDS Integers, Sequences, FiniteSets, TLC

VARIABLES settings, cx, ex, ox, rx, req, sessions, states, clock,
          ax, notes, nreq, nlog, users, reg, lists, treq, db

vars == <<settings, cx, ex, ox, rx, req, sessions, states, clock,
          ax, notes, nreq, nlog, users, reg, lists, treq, db>>

(* ------------------------------ bounds -------------------------------- *)
MaxLen == 4        \* longest legacy plaintext drawn as cipher input
MaxHist == 5       \* longest history handed to the optimizer
MaxLimit == 3      \* largest chat_history_limit explored
MaxAfter == 4      \* largest chat_summarize_after explored
MaxItems == 2      \* longest nested list of an entity handed to the codec

(* ------------------------------- text --------------------------------- *)
Sym(kind, ch, key, iv, pt) ==
    [k |-> kind, c |-> ch, key |-> key, iv |-> iv, pt |-> pt]

Chr(ch) == Sym("chr", ch, 0, 0, <<>>)

Tok(key, iv, pt) == Sym("tok", "", key, iv, pt)

NoneV == <<Sym("none", "", 0, 0, <<>>)>>

\* Python truthiness of a str / Optional[str] / list: "" , None and [] are falsy
Falsy(x) == x = <<>> \/ x = NoneV

\* characters outside the base64 alphabets ('+', '/', '-', '_', letters, digits)
NonAlphabet == {"!", " "}

IsAlphabet(s) == s.k = "tok" \/ (s.k = "chr" /\ s.c \notin NonAlphabet)

Keys == {1, 2}
IVs == {1, 2}

(* ------------------------- EncryptionService -------------------------- *)
\* Fernet.encrypt: a fresh envelope under the service key, then
\* base64.urlsafe_b64encode(...).decode(): one block of alphabet characters
FernetEncrypt(key, iv, data) == <<Tok(key, iv, data)>>

encrypt_unguarded(key, data, iv) == FernetEncrypt(key, iv, data)

encrypt(key, data, iv) ==
    IF Falsy(data) THEN data ELSE FernetEncrypt(key, iv, data)

\* base64.urlsafe_b64decode (validate=False): characters outside the
\* alphabet are discarded before decoding; what is left must be whole
\* 4-character groups (an envelope is a whole number of groups), otherwise
\* binascii.Error("Incorrect padding")
B64Kept(x) == SelectSeq(x, IsAlphabet)

B64Chars(x) == Len(SelectSeq(x, LAMBDA s : s.k = "chr" /\ s.c \notin NonAlphabet))

B64DecodeFails(x) == x = NoneV \/ (B64Chars(x) % 4) # 0

FernetDecryptFails_undecoded(key, decoded) == TRUE

\* Fernet.decrypt: InvalidToken unless the decoded bytes are exactly one
\* envelope whose HMAC verifies under the key
FernetDecryptFails(key, decoded) ==
    ~(Len(decoded) = 1 /\ decoded[1].k = "tok" /\ decoded[1].key = key)

decrypt_noexcept(key, encrypted_data) ==
    IF Falsy(encrypted_data)
    THEN [raised |-> FALSE, val |-> encrypted_data]
    ELSE IF B64DecodeFails(encrypted_data)
              \/ FernetDecryptFails(key, B64Kept(encrypted_data))
         THEN [raised |-> TRUE, val |-> NoneV]
         ELSE [raised |-> FALSE, val |-> B64Kept(encrypted_data)[1].pt]

\* decrypt with its outcome: the value returned and whether an exception
\* left the method
DecryptOutcome(key, encrypted_data) ==
    IF Falsy(encrypted_data)
    THEN [raised |-> FALSE, val |-> encrypted_data]
    ELSE IF B64DecodeFails(encrypted_data)
              \/ FernetDecryptFails(key, B64Kept(encrypted_data))
         THEN [raised |-> FALSE, val |-> encrypted_data]
         ELSE [raised |-> FALSE, val |-> B64Kept(encrypted_data)[1].pt]

decrypt(key, encrypted_data) == DecryptOutcome(key, encrypted_data).val


(* ----------------------------- Field Codec ---------------------------- *)
\* One IV stands for the IVs drawn by all encrypt calls of one codec call.
encrypt_dict(key, data, fields, iv) ==
    [f \in DOMAIN data |->
        IF f \in fields /\ ~Falsy(data[f]) THEN encrypt(key, data[f], iv)
                                          ELSE data[f]]

decrypt_dict(key, data, fields) ==
    [f \in DOMAIN data |->
        IF f \in fields /\ ~Falsy(data[f]) THEN decrypt(key, data[f])
                                          ELSE data[f]]

encrypt_note(key, note_dict, iv) ==
    encrypt_dict(key, note_dict, {"title", "content"}, iv)

decrypt_note(key, note_dict) ==
    decrypt_dict(key, note_dict, {"title", "content"})

encrypt_checklist_template(key, template_dict, iv) ==
    [f \in DOMAIN template_dict |->
        IF f = "name" THEN encrypt(key, template_dict[f], iv)
        ELSE IF f = "items" /\ ~Falsy(template_dict[f])
             THEN [i \in 1..Len(template_dict[f]) |->
                      encrypt(key, template_dict[f][i], iv)]
             ELSE template_dict[f]]

decrypt_checklist_template(key, template_dict) ==
    [f \in DOMAIN template_dict |->
        IF f = "name" THEN decrypt(key, template_dict[f])
        ELSE IF f = "items" /\ ~Falsy(template_dict[f])
             THEN [i \in 1..Len(template_dict[f]) |->
                      decrypt(key, template_dict[f][i])]
             ELSE template_dict[f]]

\* {**item, field: self.encrypt(item[field])} if field in item else item
EncryptField(key, item, field, iv) ==
    IF field \in DOMAIN item
    THEN [g \in DOMAIN item |->
             IF g = field THEN encrypt(key, item[g], iv) ELSE item[g]]
    ELSE item

\* {**item, field: self.decrypt(item[field])} if field in item else item
DecryptField(key, item, field) ==
    IF field \in DOMAIN item
    THEN [g \in DOMAIN item |->
             IF g = field THEN decrypt(key, item[g]) ELSE item[g]]
    ELSE item

encrypt_checklist(key, checklist_dict, iv) ==
    [f \in DOMAIN checklist_dict |->
        IF f = "items" /\ ~Falsy(checklist_dict[f])
        THEN [i \in 1..Len(checklist_dict[f]) |->
                 EncryptField(key, checklist_dict[f][i], "text", iv)]
        ELSE checklist_dict[f]]

decrypt_checklist(key, checklist_dict) ==
    [f \in DOMAIN checklist_dict |->
        IF f = "items" /\ ~Falsy(checklist_dict[f])
        THEN [i \in 1..Len(checklist_dict[f]) |->
                 DecryptField(key, checklist_dict[f][i], "text")]
        ELSE checklist_dict[f]]

encrypt_chat_session(key, session_dict, iv) ==
    [f \in DOMAIN session_dict |->
        IF f = "title" THEN encrypt(key, session_dict[f], iv)
        ELSE IF f = "messages" /\ ~Falsy(session_dict[f])
             THEN [i \in 1..Len(session_dict[f]) |->
                      EncryptField(key, session_dict[f][i], "content", iv)]
             ELSE session_dict[f]]

decrypt_chat_session_title_only(key, session_dict) ==
    [f \in DOMAIN session_dict |->
        IF f = "title" THEN decrypt(key, session_dict[f])
        ELSE session_dict[f]]

decrypt_chat_session(key, session_dict) ==
    [f \in DOMAIN session_dict |->
        IF f = "title" THEN decrypt(key, session_dict[f])
        ELSE IF f = "messages" /\ ~Falsy(session_dict[f])
             THEN [i \in 1..Len(session_dict[f]) |->
                      DecryptField(key, session_dict[f][i], "content")]
             ELSE session_dict[f]]

encrypt_state_record(key, state_dict, iv) ==
    encrypt_dict(key, state_dict, {"analysis"}, iv)

decrypt_state_record(key, state_dict) ==
    decrypt_dict(key, state_dict, {"analysis"})

EntityTypes == {"note", "template", "checklist", "chat_session", "state"}

encrypt_for_storage(key, type, e, iv) ==
    CASE type = "note" -> encrypt_note(key, e, iv)
      [] type = "template" -> encrypt_checklist_template(key, e, iv)
      [] type = "checklist" -> encrypt_checklist(key, e, iv)
      [] type = "chat_session" -> encrypt_chat_session(key, e, iv)
      [] type = "state" -> encrypt_state_record(key, e, iv)

decrypt_for_read(key, type, e) ==
    CASE type = "note" -> decrypt_note(key, e)
      [] type = "template" -> decrypt_checklist_template(key, e)
      [] type = "checklist" -> decrypt_checklist(key, e)
      [] type = "chat_session" -> decrypt_chat_session(key, e)
      [] type = "state" -> decrypt_state_record(key, e)

(* -------------------------- History Optimizer ------------------------- *)
\* Python slices history[-n:] and history[:-n] for n >= 0 (note -0 = 0)
SliceLast(h, n) ==
    IF n = 0 \/ n >= Len(h) THEN h ELSE SubSeq(h, Len(h) - n + 1, Len(h))

SliceButLast(h, n) ==
    IF n = 0 \/ n >= Len(h) THEN <<>> ELSE SubSeq(h, 1, Len(h) - n)

Msg(role, content) == [role |-> role, content |-> content]

\* a ChatMessage as dumped for storage; created_at is the time of the turn
\* that built it
ChatMessage(role, content, created_at) ==
    [role |-> role, content |-> content, created_at |-> created_at]

\* f"[<prefix>: {history_summary}]"; the Russian prefix is written in English
ContextMessage(history_summary) ==
    Msg("system", <<Chr("[Context of past conversation: ")>>
                  \o history_summary \o <<Chr("]")>>)

_optimize_history_lt(self, history, history_summary) ==
    IF Len(history) < self.chat_history_limit
    THEN [context |-> history, need |-> FALSE]
    ELSE [context |->
             (IF ~Falsy(history_summary)
              THEN <<ContextMessage(history_summary)>> ELSE <<>>)
             \o SliceLast(history, self.chat_history_limit),
          need |-> Len(history) > self.chat_summarize_after]

_optimize_history_first_only(self, history, history_summary) ==
    IF Len(history) <= self.chat_history_limit
    THEN [context |-> history, need |-> FALSE]
    ELSE [context |->
             (IF ~Falsy(history_summary)
              THEN <<ContextMessage(history_summary)>> ELSE <<>>)
             \o SliceLast(history, self.chat_history_limit),
          need |-> Falsy(history_summary)
                   /\ Len(history) > self.chat_summarize_after]

\* AIService._optimize_history; self carries history_limit, summarize_after
_optimize_history(self, history, history_summary) ==
    IF Len(history) <= self.chat_history_limit
    THEN [context |-> history, need |-> FALSE]
    ELSE [context |->
             (IF ~Falsy(history_summary)
              THEN <<ContextMessage(history_summary)>> ELSE <<>>)
             \o SliceLast(history, self.chat_history_limit),
          need |-> Len(history) > self.chat_summarize_after]


(* --------------------------- reply text -------------------------------- *)
\* the control marker "[SUGGEST_CHECKLIST]", as its two halves
MarkerA == Chr("[SUGGEST_")
MarkerB == Chr("CHECKLIST]")

\* "[SUGGEST_CHECKLIST]" in response
HasMarker(s) ==
    \E i \in 1..(Len(s) - 1) : s[i] = MarkerA /\ s[i + 1] = MarkerB

\* response.replace("[SUGGEST_CHECKLIST]", ""): one pass, left to right
RECURSIVE RemoveMarker(_)
RemoveMarker(s) ==
    IF Len(s) = 0 THEN <<>>
    ELSE IF Len(s) >= 2 /\ s[1] = MarkerA /\ s[2] = MarkerB
         THEN RemoveMarker(SubSeq(s, 3, Len(s)))
         ELSE <<s[1]>> \o RemoveMarker(Tail(s))

\* str.strip()
RECURSIVE LStrip(_)
LStrip(s) ==
    IF Len(s) > 0 /\ s[1] = Chr(" ") THEN LStrip(Tail(s)) ELSE s

RECURSIVE RStrip(_)
RStrip(s) ==
    IF Len(s) > 0 /\ s[Len(s)] = Chr(" ")
    THEN RStrip(SubSeq(s, 1, Len(s) - 1)) ELSE s

Strip(s) == LStrip(RStrip(s))

CleanResponse(response) == Strip(RemoveMarker(response))

(* ----------------------- AIService.get_reflection_response ------------ *)
\* new_summary or history_summary
OrElse(a, b) == IF Falsy(a) THEN b ELSE a

ReflectionResult_new_only(response, new_summary, history_summary, need) ==
    [response |-> CleanResponse(response),
     suggest_checklist |-> HasMarker(response),
     history_summary |-> new_summary,
     need_summary_update |-> need]

\* the dict returned by get_reflection_response
ReflectionResult(response, new_summary, history_summary, need) ==
    [response |-> CleanResponse(response),
     suggest_checklist |-> HasMarker(response),
     history_summary |-> OrElse(new_summary, history_summary),
     need_summary_update |-> need]

NoResult ==
    [response |-> NoneV, suggest_checklist |-> FALSE,
     history_summary |-> NoneV, need_summary_update |-> FALSE]

(* ------------------------------ settings ------------------------------ *)
\* Settings as read once by AIService.__init__ and init_encryption; the
\* limits explored are small stand-ins for the defaults 10 and 6
IdleSettings ==
    [chat_history_limit |-> 2, chat_summarize_after |-> 1,
     openai_api_key |-> TRUE, encryption_key |-> 1]

IdleCx == [orig |-> <<>>, cur |-> <<>>, ops |-> <<>>, raised |-> FALSE]

IdleEx == [type |-> "none", pc |-> "idle", e |-> <<>>, stored |-> <<>>,
           read |-> <<>>]

IdleOx == [history |-> <<>>, summary |-> NoneV, done |-> FALSE,
           context |-> <<>>, need |-> FALSE]

IdleRx ==
    [pc |-> "idle", session_id |-> "none", message |-> <<>>, history |-> <<>>,
     history_summary |-> NoneV, optimized |-> <<>>, need |-> FALSE,
     sum_called |-> FALSE, sum_outcome |-> "none", tail |-> <<>>,
     new_summary |-> NoneV, main_outcome |-> "none", messages |-> <<>>,
     response |-> NoneV, result |-> NoResult]

Reqs == {1, 2}

\* what a request has before its handler has built a result
NoReply ==
    [response |-> NoneV, suggest_checklist |-> FALSE, state_updated |-> FALSE]

\* one request to POST /chat: its inputs, the handler's position and
\* locals, the HTTP status, and a record of what it has done so far
\* (main_calls, reply_failed, state_failed, writes); sent_summary is the
\* history_summary key of the request body, None when the body has none
IdleReq ==
    [pc |-> "idle", route |-> "none", user |-> "none", session_id |-> "none",
     update_state |-> FALSE, message |-> <<>>, sent_summary |-> NoneV,
     status |-> 0, result |-> NoReply, main_calls |-> 0,
     reply_failed |-> FALSE, state_failed |-> FALSE, writes |-> {},
     pending |-> <<>>, stamp |-> 0, body |-> <<>>]

\* nothing of the chat turn has run
IdleTurn ==
    /\ rx = IdleRx
    /\ req = [r \in Reqs |-> IdleReq]
    /\ sessions = <<>>
    /\ states = <<>>
    /\ clock = 0

IdleAx ==
    [pc |-> "idle", text |-> <<>>, supplied |-> <<>>, state_data |-> NoneV,
     raised |-> FALSE, record |-> <<>>]

\* one request to a notes route: its inputs, the handler's position, the
\* HTTP status and the note in the response body
NoNote == [title |-> NoneV, content |-> NoneV]

IdleNreq ==
    [pc |-> "idle", op |-> "none", user |-> "none", note_id |-> "none",
     update |-> NoNote, status |-> 0, body |-> NoNote]

\* one request to POST /auth/register
IdleReg == [pc |-> "idle", email |-> "", status |-> 0]

IdleNotes == notes = <<>> /\ nreq = [r \in Reqs |-> IdleNreq] /\ nlog = <<>>

IdleAuth == users = <<>> /\ reg = [r \in Reqs |-> IdleReg]

\* one request to PUT /checklists/{date}/items/{item_id}: its item_id, the
\* handler's position, the items it holds and the HTTP status
IdleTreq == [pc |-> "idle", item_id |-> "none", items |-> <<>>, status |-> 0]

\* no daily checklist stored; created keeps the items a checklist had when
\* it was inserted
IdleLists ==
    /\ lists = [exists |-> FALSE, items |-> <<>>, created |-> <<>>]
    /\ treq = [r \in Reqs |-> IdleTreq]

\* the Database singleton before connect (client, _connected), whether the
\* server answers a ping, where the application is, the attempts made by
\* connect and the calls of check_connection made so far
IdleDb ==
    [client |-> FALSE, connected |-> FALSE, up |-> FALSE, pc |-> "off",
     attempt |-> 0, log |-> <<>>]

(* --------------------- cipher and codec, as a machine ----------------- *)
SeqsUpTo(S, n) == UNION {[1..m -> S] : m \in 0..n}

PlainStrs == SeqsUpTo({Chr("a"), Chr("!")}, MaxLen)

Payloads == {<<Chr("a")>>, <<Chr("a"), Chr("!")>>}

Envelopes == {<<Tok(k, iv, p)>> : k \in Keys, iv \in IVs, p \in Payloads}

\* an envelope with a character outside the alphabet put before or after it
\* (a line break, a blank), or with alphabet characters put before it
Mangled ==
    {<<Chr("!")>> \o t : t \in Envelopes} \cup {t \o <<Chr(" ")>> : t \in Envelopes}
    \cup {<<Chr("a")>> \o t : t \in Envelopes}

CipherInputs == PlainStrs \cup {NoneV} \cup Envelopes \cup Mangled

FieldTexts == {<<>>, <<Chr("a")>>, <<Tok(1, 1, <<Chr("a")>>)>>}

Notes ==
    {[id |-> "n1", user_id |-> "u1", title |-> t, content |-> c] :
        t \in FieldTexts, c \in FieldTexts}

Templates ==
    {[id |-> "t1", user_id |-> "u1", name |-> n, items |-> it] :
        n \in FieldTexts, it \in SeqsUpTo(FieldTexts, MaxItems)}

ChecklistItems ==
    {[id |-> "i1", text |-> t, completed |-> c] :
        t \in FieldTexts, c \in BOOLEAN}

Checklists ==
    {[id |-> "c1", user_id |-> "u1", date |-> "2024-01-01", items |-> it] :
        it \in SeqsUpTo(ChecklistItems, MaxItems)}

ChatMessages ==
    {[id |-> "m", role |-> r, content |-> t] :
        r \in {"user", "assistant"}, t \in FieldTexts}

\* session documents as create_chat_session dumps them, and documents that
\* also carry the history_summary key which chat_with_ai sets
ChatSessions ==
    {[id |-> "s1", user_id |-> "u1", title |-> t, messages |-> ms] :
        t \in FieldTexts, ms \in SeqsUpTo(ChatMessages, MaxItems)}
    \cup
    {[id |-> "s1", user_id |-> "u1", title |-> t, messages |-> <<>>,
      history_summary |-> hs] : t \in FieldTexts, hs \in FieldTexts}

StateRecords ==
    {[id |-> "r1", user_id |-> "u1", metrics |-> 5, analysis |-> t] :
        t \in FieldTexts}

EntitiesOf(type) ==
    CASE type = "note" -> Notes
      [] type = "template" -> Templates
      [] type = "checklist" -> Checklists
      [] type = "chat_session" -> ChatSessions
      [] type = "state" -> StateRecords

InitEnc ==
    /\ \E k \in Keys : settings = [IdleSettings EXCEPT !.encryption_key = k]
    /\ ox = IdleOx /\ IdleTurn
    /\ ax = IdleAx /\ IdleNotes /\ IdleAuth /\ IdleLists /\ db = IdleDb
    /\ \/ /\ \E s \in CipherInputs : cx = [IdleCx EXCEPT !.orig = s, !.cur = s]
          /\ ex = IdleEx
       \/ /\ cx = IdleCx
          /\ \E t \in EntityTypes : \E e \in EntitiesOf(t) :
                ex = [IdleEx EXCEPT !.type = t, !.pc = "new", !.e = e]

\* enc.encrypt(cur)
CipherEncrypt ==
    /\ ex.pc = "idle" /\ ~cx.raised /\ Len(cx.ops) < 2
    /\ \E iv \in IVs :
          cx' = [cx EXCEPT !.cur = encrypt(settings.encryption_key, cx.cur, iv),
                           !.ops = Append(@, "E")]
    /\ UNCHANGED <<lists, treq, db, ax, notes, nreq, nlog, users, reg,
                   settings, ex, ox, rx, req, sessions, states, clock>>

\* enc.decrypt(cur)
CipherDecrypt ==
    /\ ex.pc = "idle" /\ ~cx.raised /\ Len(cx.ops) < 2
    /\ LET out == DecryptOutcome(settings.encryption_key, cx.cur)
       IN cx' = [cx EXCEPT !.cur = out.val, !.raised = out.raised,
                           !.ops = Append(@, "D")]
    /\ UNCHANGED <<lists, treq, db, ax, notes, nreq, nlog, users, reg,
                   settings, ex, ox, rx, req, sessions, states, clock>>

\* enc.encrypt_<entity>(e) before insert_one / update_one
EncryptForStorage ==
    /\ ex.pc = "new"
    /\ \E iv \in IVs :
          ex' = [ex EXCEPT !.pc = "stored",
                    !.stored = encrypt_for_storage(settings.encryption_key,
                                                   ex.type, ex.e, iv)]
    /\ UNCHANGED <<lists, treq, db, ax, notes, nreq, nlog, users, reg,
                   settings, cx, ox, rx, req, sessions, states, clock>>

\* enc.decrypt_<entity>(record) after find_one / find
DecryptForRead ==
    /\ ex.pc = "stored"
    /\ ex' = [ex EXCEPT !.pc = "read",
                 !.read = decrypt_for_read(settings.encryption_key,
                                           ex.type, ex.stored)]
    /\ UNCHANGED <<lists, treq, db, ax, notes, nreq, nlog, users, reg,
                   settings, cx, ox, rx, req, sessions, states, clock>>

NextEnc == CipherEncrypt \/ CipherDecrypt \/ EncryptForStorage \/ DecryptForRead

SpecEnc == InitEnc /\ [][NextEnc]_vars

(* ---------------------- optimizer, as a machine ----------------------- *)
TurnRole(i) == IF i % 2 = 1 THEN "user" ELSE "assistant"

TurnNames == <<"m1", "m2", "m3", "m4", "m5", "m6", "m7", "m8", "m9">>

\* a conversation of n turns, user first, every turn with its own text
History(n) == [i \in 1..n |-> Msg(TurnRole(i), <<Chr(TurnNames[i])>>)]

Summaries == {NoneV, <<>>, <<Chr("S")>>}

InitOpt ==
    /\ \E l \in 0..MaxLimit : \E a \in 0..MaxAfter :
          settings = [IdleSettings EXCEPT !.chat_history_limit = l,
                                          !.chat_summarize_after = a]
    /\ cx = IdleCx /\ ex = IdleEx /\ IdleTurn
    /\ ax = IdleAx /\ IdleNotes /\ IdleAuth /\ IdleLists /\ db = IdleDb
    /\ \E n \in 0..MaxHist : \E s \in Summaries :
          ox = [IdleOx EXCEPT !.history = History(n), !.summary = s]

Optimize ==
    /\ ~ox.done
    /\ LET r == _optimize_history(settings, ox.history, ox.summary)
       IN ox' = [ox EXCEPT !.done = TRUE, !.context = r.context,
                           !.need = r.need]
    /\ UNCHANGED <<lists, treq, db, ax, notes, nreq, nlog, users, reg,
                   settings, cx, ex, rx, req, sessions, states, clock>>

NextOpt == Optimize

SpecOpt == InitOpt /\ [][NextOpt]_vars


(* ------------- get_reflection_response, as a machine ------------------ *)
SYSTEM_PROMPT == <<Chr("REFLECTION_SYSTEM_PROMPT")>>

\* texts the completion endpoint may return for the reply
Replies ==
    {<<Chr("r")>>,
     <<Chr("r"), Chr(" "), MarkerA, MarkerB>>,
     <<MarkerA, MarkerB>>,
     <<MarkerA, MarkerA, MarkerB, MarkerB>>}

\* texts the completion endpoint may return for the summary
Digests == {<<>>, <<Chr("D")>>}

\* the history_summary of the stored session before the turn: the key is
\* absent (None), or it holds the digest an earlier turn stored
StoredSummaries == {NoneV, <<Tok(1, 1, <<Chr("S")>>)>>}

InitReflect ==
    /\ \E l \in 0..MaxLimit : \E a \in 0..MaxAfter : \E k \in BOOLEAN :
          settings = [IdleSettings EXCEPT !.chat_history_limit = l,
                                          !.chat_summarize_after = a,
                                          !.openai_api_key = k]
    /\ cx = IdleCx /\ ex = IdleEx /\ ox = IdleOx
    /\ ax = IdleAx /\ IdleNotes /\ IdleAuth /\ IdleLists /\ db = IdleDb
    /\ req = [r \in Reqs |-> IdleReq]
    /\ \E hs \in StoredSummaries :
          sessions = [sid \in {"s1"} |->
                         [id |-> sid, user_id |-> "u1", title |-> <<>>,
                          messages |-> <<>>, updated_at |-> 0,
                          history_summary |-> hs]]
    /\ states = <<>> /\ clock = 0
    /\ \E n \in 0..MaxHist : \E s \in Summaries : \E sid \in {"none", "s1"} :
          rx = [IdleRx EXCEPT !.pc = "start", !.message = <<Chr("q")>>,
                              !.session_id = sid,
                              !.history = History(n), !.history_summary = s]

ReflectStart_whole_history ==
    /\ rx.pc = "start"
    /\ LET o == _optimize_history(settings, rx.history, rx.history_summary)
           entered == o.need /\ Len(rx.history) > settings.chat_summarize_after
           old == rx.history
           call == entered /\ ~Falsy(old)
       IN rx' = [rx EXCEPT !.optimized = o.context, !.need = o.need,
                           !.tail = IF entered THEN old ELSE <<>>,
                           !.sum_called = call,
                           !.pc = IF call THEN "summarizing" ELSE "calling"]
    /\ UNCHANGED <<lists, treq, db, ax, notes, nreq, nlog, users, reg,
                   settings, cx, ex, ox, req, sessions, states, clock>>

\* lines 244-253: optimise, then decide whether _summarize_history is awaited
ReflectStart ==
    /\ rx.pc = "start"
    /\ LET o == _optimize_history(settings, rx.history, rx.history_summary)
           entered == o.need /\ Len(rx.history) > settings.chat_summarize_after
           old == SliceButLast(rx.history, settings.chat_history_limit)
           call == entered /\ ~Falsy(old)
       IN rx' = [rx EXCEPT !.optimized = o.context, !.need = o.need,
                           !.tail = IF entered THEN old ELSE <<>>,
                           !.sum_called = call,
                           !.pc = IF call THEN "summarizing" ELSE "calling"]
    /\ UNCHANGED <<lists, treq, db, ax, notes, nreq, nlog, users, reg,
                   settings, cx, ex, ox, req, sessions, states, clock>>

\* _summarize_history: chat_completion returns the digest
SummarizerReturns ==
    /\ rx.pc = "summarizing" /\ settings.openai_api_key
    /\ \E d \in Digests :
          rx' = [rx EXCEPT !.new_summary = d,
                           !.sum_outcome = IF d = <<>> THEN "empty" ELSE "ok",
                           !.pc = "calling"]
    /\ UNCHANGED <<lists, treq, db, ax, notes, nreq, nlog, users, reg,
                   settings, cx, ex, ox, req, sessions, states, clock>>

\* _summarize_history: chat_completion raises (no API key, HTTP error,
\* timeout); the except clause returns ""
SummarizerFails ==
    /\ rx.pc = "summarizing"
    /\ rx' = [rx EXCEPT !.new_summary = <<>>, !.sum_outcome = "raised",
                        !.pc = "calling"]
    /\ UNCHANGED <<lists, treq, db, ax, notes, nreq, nlog, users, reg,
                   settings, cx, ex, ox, req, sessions, states, clock>>

\* lines 255-277: the main completion returns; the result dict is built
MainReturns ==
    /\ rx.pc = "calling" /\ settings.openai_api_key
    /\ \E resp \in Replies :
          rx' = [rx EXCEPT
                    !.messages = <<Msg("system", SYSTEM_PROMPT)>> \o rx.optimized
                                 \o <<Msg("user", rx.message)>>,
                    !.response = resp, !.main_outcome = "ok",
                    !.result = ReflectionResult(resp, rx.new_summary,
                                                rx.history_summary, rx.need),
                    !.pc = "done"]
    /\ UNCHANGED <<lists, treq, db, ax, notes, nreq, nlog, users, reg,
                   settings, cx, ex, ox, req, sessions, states, clock>>

\* line 267: the main completion raises; the exception leaves the method
MainRaises ==
    /\ rx.pc = "calling"
    /\ rx' = [rx EXCEPT
                 !.messages = <<Msg("system", SYSTEM_PROMPT)>> \o rx.optimized
                              \o <<Msg("user", rx.message)>>,
                 !.main_outcome = "raised", !.pc = "raised"]
    /\ UNCHANGED <<lists, treq, db, ax, notes, nreq, nlog, users, reg,
                   settings, cx, ex, ox, req, sessions, states, clock>>

\* app/routes/chat.py lines 40-64, for the result the call returned: with
\* a session_id the two messages are encrypted, result["history_summary"]
\* is encrypted into $set when it is truthy, and one update_one is awaited
ReflectPersist ==
    /\ rx.pc = "done"
    /\ \E iv \in IVs :
          LET key == settings.encryption_key
              pair == <<ChatMessage("user", encrypt(key, rx.message, iv),
                                    clock + 1),
                        ChatMessage("assistant",
                                    encrypt(key, rx.result.response, iv),
                                    clock + 1)>>
              sid == rx.session_id
          IN  sessions' =
                 IF sid # "none" /\ sid \in DOMAIN sessions
                 THEN [sessions EXCEPT
                          ![sid].messages = @ \o pair,
                          ![sid].updated_at = clock + 1,
                          ![sid].history_summary =
                             IF ~Falsy(rx.result.history_summary)
                             THEN encrypt(key, rx.result.history_summary, iv)
                             ELSE @]
                 ELSE sessions
    /\ rx' = [rx EXCEPT !.pc = "persisted"]
    /\ clock' = clock + 1
    /\ UNCHANGED <<lists, treq, db, ax, notes, nreq, nlog, users, reg,
                   settings, cx, ex, ox, req, states>>

NextReflect ==
    \/ ReflectStart \/ SummarizerReturns \/ SummarizerFails
    \/ MainReturns \/ MainRaises \/ ReflectPersist

SpecReflect == InitReflect /\ [][NextReflect]_vars

(* ------------------------ POST /chat, as a machine --------------------- *)
Users == {"u1", "u2"}

SessionIds == {"s1", "s2"}

Owner(sid) == IF sid = "s1" THEN "u1" ELSE "u2"

\* the chat sessions created before the turns start, as stored
InitSessions ==
    [sid \in SessionIds |->
        [id |-> sid, user_id |-> Owner(sid), title |-> <<>>,
         messages |-> <<>>, updated_at |-> 0]]

Init ==
    /\ \E k \in BOOLEAN : settings = [IdleSettings EXCEPT !.openai_api_key = k]
    /\ cx = IdleCx /\ ex = IdleEx /\ ox = IdleOx /\ rx = IdleRx
    /\ ax = IdleAx /\ IdleNotes /\ IdleAuth /\ IdleLists /\ db = IdleDb
    /\ req = [r \in Reqs |-> IdleReq]
    /\ sessions = InitSessions
    /\ states = <<>>
    /\ clock = 0

\* the request body and the authenticated user of one POST /chat
Received(r, route, u, sid, us) ==
    [req[r] EXCEPT !.route = route, !.user = u, !.session_id = sid,
                   !.update_state = us, !.message = <<Chr("q")>>]

\* where the handler goes once the reply is stored or need not be
AfterPersist(q) ==
    IF q.update_state THEN [q EXCEPT !.pc = "analysing"]
    ELSE [q EXCEPT !.pc = "done", !.status = 200]

\* app/routes/chat.py chat_with_ai: the argument request.history_summary is
\* read before get_reflection_response is called; ChatRequest declares no
\* such field (a history_summary key of the body is dropped when the body
\* is validated), the AttributeError reaches the handler's except clause
chat_with_ai(r) ==
    /\ req[r].pc = "idle"
    /\ \E u \in Users : \E sid \in SessionIds \cup {"none"} : \E us \in BOOLEAN :
       \E s \in Summaries :
          req' = [req EXCEPT ![r] =
                     [Received(r, "app", u, sid, us) EXCEPT
                         !.sent_summary = s,
                         !.pc = "failed", !.status = 500,
                         !.reply_failed = TRUE]]
    /\ UNCHANGED <<lists, treq, db, ax, notes, nreq, nlog, users, reg,
                   settings, cx, ex, ox, rx, sessions, states, clock>>

\* server.py chat_with_ai, lines 743-764: build the messages and await
\* call_openai_chat
server_chat_submit(r) ==
    /\ req[r].pc = "idle"
    /\ \E u \in Users : \E sid \in SessionIds \cup {"none"} : \E us \in BOOLEAN :
          req' = [req EXCEPT ![r] =
                     [Received(r, "server", u, sid, us) EXCEPT
                         !.pc = "calling", !.main_calls = @ + 1]]
    /\ UNCHANGED <<lists, treq, db, ax, notes, nreq, nlog, users, reg,
                   settings, cx, ex, ox, rx, sessions, states, clock>>

server_chat_reply_degraded(r) ==
    /\ req[r].pc = "calling"
    /\ req' = [req EXCEPT ![r] =
                  AfterPersist([req[r] EXCEPT !.reply_failed = TRUE,
                                              !.result.response = <<>>])]
    /\ UNCHANGED <<lists, treq, db, ax, notes, nreq, nlog, users, reg,
                   settings, cx, ex, ox, rx, sessions, states, clock>>

\* server.py lines 694-696, 732-740, 833-835: call_openai_chat raises (no
\* API key, HTTP status, transport error); the handler answers 500
server_chat_reply_raises(r) ==
    /\ req[r].pc = "calling"
    /\ req' = [req EXCEPT ![r] =
                  [req[r] EXCEPT !.pc = "failed", !.status = 500,
                                 !.reply_failed = TRUE]]
    /\ UNCHANGED <<lists, treq, db, ax, notes, nreq, nlog, users, reg,
                   settings, cx, ex, ox, rx, sessions, states, clock>>

server_chat_reply_returns_unpersisted(r) ==
    /\ req[r].pc = "calling" /\ settings.openai_api_key
    /\ \E resp \in Replies :
          LET res == [response |-> CleanResponse(resp),
                      suggest_checklist |-> HasMarker(resp),
                      state_updated |-> FALSE]
          IN req' = [req EXCEPT ![r] =
                        AfterPersist([req[r] EXCEPT !.result = res])]
    /\ UNCHANGED <<lists, treq, db, ax, notes, nreq, nlog, users, reg,
                   settings, cx, ex, ox, rx, sessions, states, clock>>

\* server.py lines 764-793: the reply arrives; marker handling; with a
\* session_id the two messages are encrypted and update_one is awaited
server_chat_reply_returns(r) ==
    /\ req[r].pc = "calling" /\ settings.openai_api_key
    /\ \E resp \in Replies : \E iv \in IVs :
          LET res == [response |-> CleanResponse(resp),
                      suggest_checklist |-> HasMarker(resp),
                      state_updated |-> FALSE]
              q == [req[r] EXCEPT !.result = res]
              msgs == <<ChatMessage("user",
                                    encrypt(settings.encryption_key,
                                            q.message, iv), clock + 1),
                        ChatMessage("assistant",
                                    encrypt(settings.encryption_key,
                                            res.response, iv), clock + 1)>>
          IN IF q.session_id # "none"
             THEN /\ req' = [req EXCEPT ![r] =
                                [q EXCEPT !.pc = "persisting",
                                          !.pending = msgs,
                                          !.stamp = clock + 1]]
                  /\ clock' = clock + 1
             ELSE /\ req' = [req EXCEPT ![r] = AfterPersist(q)]
                  /\ clock' = clock
    /\ UNCHANGED <<lists, treq, db, ax, notes, nreq, nlog, users, reg,
                   settings, cx, ex, ox, rx, sessions, states>>

server_chat_persist_assistant_only(r) ==
    /\ req[r].pc = "persisting"
    /\ LET sid == req[r].session_id
       IN sessions' =
             [sessions EXCEPT ![sid].messages = @ \o Tail(req[r].pending),
                              ![sid].updated_at = req[r].stamp]
    /\ req' = [req EXCEPT ![r] =
                  AfterPersist([req[r] EXCEPT !.writes = @ \cup {"turns"},
                                              !.pending = <<>>])]
    /\ UNCHANGED <<lists, treq, db, ax, notes, nreq, nlog, users, reg,
                   settings, cx, ex, ox, rx, states, clock>>

server_chat_persist_one_by_one(r) ==
    /\ req[r].pc = "persisting"
    /\ LET sid == req[r].session_id
       IN sessions' =
             [sessions EXCEPT ![sid].messages = Append(@, Head(req[r].pending)),
                              ![sid].updated_at = req[r].stamp]
    /\ req' = [req EXCEPT ![r] =
                  IF Len(req[r].pending) > 1
                  THEN [req[r] EXCEPT !.pending = Tail(@)]
                  ELSE AfterPersist([req[r] EXCEPT !.writes = @ \cup {"turns"},
                                                   !.pending = <<>>])]
    /\ UNCHANGED <<lists, treq, db, ax, notes, nreq, nlog, users, reg,
                   settings, cx, ex, ox, rx, states, clock>>

server_chat_persist_set(r) ==
    /\ req[r].pc = "persisting"
    /\ LET sid == req[r].session_id
       IN sessions' =
             [sessions EXCEPT ![sid].messages = req[r].pending,
                              ![sid].updated_at = req[r].stamp]
    /\ req' = [req EXCEPT ![r] =
                  AfterPersist([req[r] EXCEPT !.writes = @ \cup {"turns"},
                                              !.pending = <<>>])]
    /\ UNCHANGED <<lists, treq, db, ax, notes, nreq, nlog, users, reg,
                   settings, cx, ex, ox, rx, states, clock>>

\* server.py lines 787-793: update_one({"id": session_id}, $push, $set)
server_chat_persist(r) ==
    /\ req[r].pc = "persisting"
    /\ LET sid == req[r].session_id
       IN sessions' =
             IF sid \in DOMAIN sessions
             THEN [sessions EXCEPT ![sid].messages = @ \o req[r].pending,
                                   ![sid].updated_at = req[r].stamp]
             ELSE sessions
    /\ req' = [req EXCEPT ![r] =
                  AfterPersist([req[r] EXCEPT !.writes = @ \cup {"turns"},
                                              !.pending = <<>>])]
    /\ UNCHANGED <<lists, treq, db, ax, notes, nreq, nlog, users, reg,
                   settings, cx, ex, ox, rx, states, clock>>

server_chat_state_fatal(r) ==
    /\ req[r].pc = "analysing"
    /\ req' = [req EXCEPT ![r] =
                  [req[r] EXCEPT !.pc = "failed", !.status = 500,
                                 !.state_failed = TRUE]]
    /\ UNCHANGED <<lists, treq, db, ax, notes, nreq, nlog, users, reg,
                   settings, cx, ex, ox, rx, sessions, states, clock>>

\* server.py lines 796-829: the state-analysis completion raises, or its
\* text has no JSON object, or the object does not validate; logged only
server_chat_state_fails(r) ==
    /\ req[r].pc = "analysing"
    /\ req' = [req EXCEPT ![r] =
                  [req[r] EXCEPT !.pc = "done", !.status = 200,
                                 !.state_failed = TRUE]]
    /\ UNCHANGED <<lists, treq, db, ax, notes, nreq, nlog, users, reg,
                   settings, cx, ex, ox, rx, sessions, states, clock>>

\* server.py lines 805-823: the analysis parses; the record is encrypted
\* and insert_one is awaited
server_chat_state_parsed(r) ==
    /\ req[r].pc = "analysing" /\ settings.openai_api_key
    /\ \E a \in {<<>>, <<Chr("A")>>} : \E iv \in IVs :
          req' = [req EXCEPT ![r] =
                     [req[r] EXCEPT
                         !.pc = "inserting",
                         !.pending =
                            encrypt_state_record(settings.encryption_key,
                               [user_id |-> req[r].user, metrics |-> 5,
                                analysis |-> a], iv)]]
    /\ UNCHANGED <<lists, treq, db, ax, notes, nreq, nlog, users, reg,
                   settings, cx, ex, ox, rx, sessions, states, clock>>

\* server.py lines 823, 828-831: insert_one raises; logged only, the result
\* built so far is returned
server_chat_insert_raises(r) ==
    /\ req[r].pc = "inserting"
    /\ req' = [req EXCEPT ![r] =
                  [req[r] EXCEPT !.pc = "done", !.status = 200,
                                 !.state_failed = TRUE, !.pending = <<>>]]
    /\ UNCHANGED <<lists, treq, db, ax, notes, nreq, nlog, users, reg,
                   settings, cx, ex, ox, rx, sessions, states, clock>>

\* server.py lines 823-831: insert_one, then the result is returned
server_chat_insert_state(r) ==
    /\ req[r].pc = "inserting"
    /\ states' = Append(states, req[r].pending)
    /\ req' = [req EXCEPT ![r] =
                  [req[r] EXCEPT !.pc = "done", !.status = 200,
                                 !.result.state_updated = TRUE,
                                 !.writes = @ \cup {"snapshot"},
                                 !.pending = <<>>]]
    /\ UNCHANGED <<lists, treq, db, ax, notes, nreq, nlog, users, reg,
                   settings, cx, ex, ox, rx, sessions, clock>>

\* server.py lines 867-879, app/routes/chat.py lines 145-164:
\* update_one({"id": session_id, "user_id": user.id}, $set title, updated_at);
\* one title is given
update_session_title(r) ==
    /\ req[r].pc = "idle"
    /\ \E u \in Users : \E sid \in SessionIds : \E t \in {<<Chr("t")>>} : \E iv \in IVs :
          LET matched == sid \in DOMAIN sessions /\ sessions[sid].user_id = u
          IN  /\ req' = [req EXCEPT ![r] =
                            [req[r] EXCEPT
                                !.route = "update_session_title",
                                !.user = u, !.session_id = sid,
                                !.pc = "done",
                                !.status = IF matched THEN 200 ELSE 404,
                                !.stamp = clock + 1]]
              /\ sessions' =
                    IF matched
                    THEN [sessions EXCEPT
                             ![sid].title = encrypt(settings.encryption_key,
                                                    t, iv),
                             ![sid].updated_at = clock + 1]
                    ELSE sessions
              /\ clock' = clock + 1
    /\ UNCHANGED <<lists, treq, db, ax, notes, nreq, nlog, users, reg,
                   settings, cx, ex, ox, rx, states>>

\* server.py lines 858-865, app/routes/chat.py lines 132-142:
\* find_one({"id": session_id, "user_id": user.id}), then
\* ChatSession(**decrypt_chat_session(session))
get_chat_session(r) ==
    /\ req[r].pc = "idle"
    /\ \E u \in Users : \E sid \in SessionIds :
          LET matched == sid \in DOMAIN sessions /\ sessions[sid].user_id = u
          IN  req' = [req EXCEPT ![r] =
                         [req[r] EXCEPT
                             !.route = "get_chat_session",
                             !.user = u, !.session_id = sid,
                             !.pc = "done",
                             !.status = IF matched THEN 200 ELSE 404,
                             !.body =
                                IF matched
                                THEN decrypt_chat_session(
                                        settings.encryption_key, sessions[sid])
                                ELSE <<>>]]
    /\ UNCHANGED <<lists, treq, db, ax, notes, nreq, nlog, users, reg,
                   settings, cx, ex, ox, rx, sessions, states, clock>>

Next ==
    \E r \in Reqs :
       \/ chat_with_ai(r)
       \/ server_chat_submit(r)
       \/ server_chat_reply_raises(r)
       \/ server_chat_reply_returns(r)
       \/ server_chat_persist(r)
       \/ server_chat_state_fails(r)
       \/ server_chat_state_parsed(r)
       \/ server_chat_insert_raises(r)
       \/ server_chat_insert_state(r)
       \/ update_session_title(r)
       \/ get_chat_session(r)

Spec == Init /\ [][Next]_vars

\* the steps of a turn that follow an await: the event loop resumes the
\* handler once the awaited call has returned or raised
TurnStep(r) ==
    \/ server_chat_reply_raises(r)
    \/ server_chat_reply_returns(r)
    \/ server_chat_persist(r)
    \/ server_chat_state_fails(r)
    \/ server_chat_state_parsed(r)
    \/ server_chat_insert_raises(r)
    \/ server_chat_insert_state(r)

\* POST /chat when every awaited call returns or fails
SpecLive == Spec /\ \A r \in Reqs : WF_vars(TurnStep(r))

(* --------------------------- State Analyzer --------------------------- *)
\* A dict is the sequence of its members in insertion order; a member
\* carries its key and its value.  In a model text a member symbol stands
\* for the JSON text of one "key": scalar pair.
Member(name, value) == Sym("member", name, 0, 0, value)

\* dict.get(name, default)
Get(d, name, default) ==
    IF \E i \in 1..Len(d) : d[i].c = name
    THEN d[CHOOSE i \in 1..Len(d) : d[i].c = name].pt
    ELSE default

\* d[name] = value
Put(d, name, value) ==
    IF \E i \in 1..Len(d) : d[i].c = name
    THEN [i \in 1..Len(d) |->
             IF d[i].c = name THEN Member(name, value) ELSE d[i]]
    ELSE Append(d, Member(name, value))

\* the symbol sym is the character ch; Chr("metrics:") stands for the JSON
\* text "metrics": , to be followed by a value, and Chr("x") for prose
IsChr(sym, ch) == sym.k = "chr" /\ sym.c = ch

ParseFail == [ok |-> FALSE, next |-> 0, val |-> <<>>]

RECURSIVE ParseObjectAt(_, _)
RECURSIVE ParseMembersAt(_, _, _)

\* the members of an object from position i of s up to its closing brace
ParseMembersAt(s, i, acc) ==
    IF i > Len(s) THEN ParseFail
    ELSE LET m == IF s[i].k = "member"
                  THEN [ok |-> TRUE, next |-> i + 1,
                        val |-> Put(acc, s[i].c, s[i].pt)]
                  ELSE IF IsChr(s[i], "metrics:")
                  THEN LET o == ParseObjectAt(s, i + 1)
                       IN [ok |-> o.ok, next |-> o.next,
                           val |-> Put(acc, "metrics", o.val)]
                  ELSE ParseFail
         IN IF ~m.ok \/ m.next > Len(s) THEN ParseFail
            ELSE IF IsChr(s[m.next], "}") THEN [m EXCEPT !.next = @ + 1]
            ELSE IF IsChr(s[m.next], ",") THEN ParseMembersAt(s, m.next + 1, m.val)
            ELSE ParseFail

\* the JSON object that starts at position i of s
ParseObjectAt(s, i) ==
    IF i + 1 > Len(s) \/ ~IsChr(s[i], "{") THEN ParseFail
    ELSE IF IsChr(s[i + 1], "}") THEN [ok |-> TRUE, next |-> i + 2, val |-> <<>>]
    ELSE ParseMembersAt(s, i + 1, <<>>)

\* json.loads of a text that starts with '{': the dict, or JSONDecodeError
\* (ok = FALSE) when no object starts there or text follows it
json_loads(s) ==
    LET o == ParseObjectAt(s, 1)
    IN [ok |-> o.ok /\ o.next = Len(s) + 1, val |-> o.val]

\* str.find / str.rfind of one character: the 0-based index of its first /
\* last occurrence, -1 when there is none
Find(s, ch) ==
    IF \E i \in 1..Len(s) : IsChr(s[i], ch)
    THEN (CHOOSE i \in 1..Len(s) :
             IsChr(s[i], ch) /\ \A j \in 1..(i - 1) : ~IsChr(s[j], ch)) - 1
    ELSE -1

RFind(s, ch) ==
    IF \E i \in 1..Len(s) : IsChr(s[i], ch)
    THEN (CHOOSE i \in 1..Len(s) :
             IsChr(s[i], ch) /\ \A j \in (i + 1)..Len(s) : ~IsChr(s[j], ch)) - 1
    ELSE -1

_parse_json_response_rfind(response) ==
    LET json_start == Find(response, "{")
        json_end == RFind(response, "}")
    IN  IF json_start # -1 /\ json_end > json_start
        THEN LET parsed == json_loads(SubSeq(response, json_start + 1,
                                             json_end))
             IN  [raised |-> FALSE,
                  val |-> IF parsed.ok THEN parsed.val ELSE NoneV]
        ELSE [raised |-> FALSE, val |-> NoneV]

\* _parse_json_response with its outcome: the value returned and whether an
\* exception left the method
_parse_json_response(response) ==
    LET json_start == Find(response, "{")
        json_end == RFind(response, "}") + 1
    IN  IF json_start # -1 /\ json_end > json_start
        THEN LET parsed == json_loads(SubSeq(response, json_start + 1,
                                             json_end))
             IN  [raised |-> FALSE,
                  val |-> IF parsed.ok THEN parsed.val ELSE NoneV]
        ELSE [raised |-> FALSE, val |-> NoneV]

MetricOrder ==
    <<"dopamine", "serotonin", "gaba", "noradrenaline", "cortisol",
      "testosterone", "pfc_activity", "focus", "energy", "motivation">>

MetricFields == {MetricOrder[i] : i \in 1..Len(MetricOrder)}

DefaultMetric == 5

\* StateMetrics(**kwargs): declared fields take the keyword given or the
\* default, other keywords are ignored
StateMetrics(kwargs) == [f \in MetricFields |-> Get(kwargs, f, DefaultMetric)]

\* StateRecord(user_id=..., metrics=StateMetrics(**state_data.get("metrics",
\* {})), analysis=state_data.get("analysis", ""))
StateRecord(user_id, state_data) ==
    [user_id |-> user_id,
     metrics |-> StateMetrics(Get(state_data, "metrics", <<>>)),
     analysis |-> Get(state_data, "analysis", <<>>)]

(* ---------------------- State Analyzer, as a machine ----------------- *)
MaxText == 5

JsonTokens ==
    {Chr("{"), Chr("}"), Chr(","), Chr("x"), Chr("metrics:"),
     Member("analysis", <<Chr("ok")>>)}

\* every short text of the model
ModelTexts == SeqsUpTo(JsonTokens, MaxText)

\* numbers the model may write for a metric: 0 is inside the range 0-10
\* of the prompt, 11 is outside of it
MetricValues == {0, 11}

\* the metrics the model supplies: a value for each field of some subset
Supplies == UNION {[S -> MetricValues] : S \in SUBSET MetricFields}

\* the text of an analysis whose metrics object holds the fields of p:
\* prose, then {"metrics": {...}, "analysis": "ok"}
AnalysisText(p) ==
    LET present == SelectSeq(MetricOrder, LAMBDA f : f \in DOMAIN p)
        members == [i \in 1..(2 * Len(present) - 1) |->
                       IF i % 2 = 1
                       THEN Member(present[(i + 1) \div 2],
                                   p[present[(i + 1) \div 2]])
                       ELSE Chr(",")]
    IN  <<Chr("x"), Chr("{"), Chr("metrics:"), Chr("{")>> \o members
        \o <<Chr("}"), Chr(","), Member("analysis", <<Chr("ok")>>), Chr("}")>>

InitAnalyze ==
    /\ settings = IdleSettings
    /\ cx = IdleCx /\ ex = IdleEx /\ ox = IdleOx /\ IdleTurn
    /\ IdleNotes /\ IdleAuth /\ IdleLists /\ db = IdleDb
    /\ \/ \E t \in ModelTexts :
             ax = [IdleAx EXCEPT !.pc = "called", !.text = t]
       \/ \E p \in Supplies :
             ax = [IdleAx EXCEPT !.pc = "called", !.text = AnalysisText(p),
                                 !.supplied = p]

\* ai.analyze_state once the completion has returned the text
analyze_state ==
    /\ ax.pc = "called"
    /\ ax' = [ax EXCEPT !.pc = "parsed",
                        !.state_data = _parse_json_response(ax.text).val,
                        !.raised = _parse_json_response(ax.text).raised]
    /\ UNCHANGED <<lists, treq, db, notes, nreq, nlog, users, reg, settings,
                   cx, ex, ox, rx, req, sessions, states, clock>>

\* the caller of analyze_state: no snapshot for a falsy result, otherwise
\* the StateRecord is built
build_state_record ==
    /\ ax.pc = "parsed" /\ ~ax.raised
    /\ ax' = IF Falsy(ax.state_data)
             THEN [ax EXCEPT !.pc = "skipped"]
             ELSE [ax EXCEPT !.pc = "built",
                             !.record = StateRecord("u1", ax.state_data)]
    /\ UNCHANGED <<lists, treq, db, notes, nreq, nlog, users, reg, settings,
                   cx, ex, ox, rx, req, sessions, states, clock>>

NextAnalyze == analyze_state \/ build_state_record

SpecAnalyze == InitAnalyze /\ [][NextAnalyze]_vars

(* ------------------------ /notes, as a machine ------------------------ *)
MaxWrites == 3

\* the ids uuid4 gives to the notes that are created
NoteIds == {"n1"}

NoteTexts == {<<>>, <<Chr("a")>>}

\* the bodies of PUT /notes/{id}: each field a text or None
NoteUpdates == [{"title", "content"} -> NoteTexts \cup {NoneV}]

\* notes is the collection, in insertion order; nlog keeps for each id
\* issued so far the owner, the texts last written to the collection and whether
\* a delete_one removed the note
InitNotes ==
    /\ settings = IdleSettings
    /\ cx = IdleCx /\ ex = IdleEx /\ ox = IdleOx /\ IdleTurn
    /\ ax = IdleAx /\ IdleNotes /\ IdleAuth /\ IdleLists /\ db = IdleDb

\* find_one({"id": note_id, "user_id": user.id}): the position of the
\* document in the collection, 0 for None
FindNote(coll, note_id, user_id) ==
    IF \E i \in 1..Len(coll) : coll[i].id = note_id /\ coll[i].user_id = user_id
    THEN CHOOSE i \in 1..Len(coll) :
            coll[i].id = note_id /\ coll[i].user_id = user_id
    ELSE 0

\* the title and content of a Note, as the response body carries them
NoteBody(note) == [title |-> note.title, content |-> note.content]

\* a request is accepted by a worker that is not inside a handler
Accepts(r) == nreq[r].pc \in {"idle", "done"}

Accepted(r, op, u, id) ==
    [IdleNreq EXCEPT !.op = op, !.user = u, !.note_id = id]

\* POST /notes
create_note(r) ==
    /\ Accepts(r) /\ clock < MaxWrites
    /\ \E id \in NoteIds \ DOMAIN nlog :
       \E u \in Users : \E t \in NoteTexts : \E c \in NoteTexts : \E iv \in IVs :
          LET note_obj == [id |-> id, user_id |-> u, title |-> t,
                           content |-> c, updated_at |-> clock + 1]
          IN  /\ notes' = Append(notes, encrypt_note(settings.encryption_key,
                                                     note_obj, iv))
              /\ nlog' = [i \in DOMAIN nlog \cup {id} |->
                             IF i = id
                             THEN [owner |-> u, title |-> t, content |-> c,
                                   deleted |-> FALSE]
                             ELSE nlog[i]]
              /\ nreq' = [nreq EXCEPT ![r] =
                             [Accepted(r, "create", u, note_obj.id) EXCEPT
                                 !.pc = "done", !.status = 200,
                                 !.body = NoteBody(note_obj)]]
    /\ clock' = clock + 1
    /\ UNCHANGED <<lists, treq, db, ax, users, reg, settings, cx, ex, ox, rx,
                   req, sessions, states>>

get_note_undecrypted(r) ==
    /\ Accepts(r)
    /\ \E u \in Users : \E id \in NoteIds :
          LET i == FindNote(notes, id, u)
          IN  nreq' = [nreq EXCEPT ![r] =
                         IF i = 0
                         THEN [Accepted(r, "get", u, id) EXCEPT
                                  !.pc = "done", !.status = 404]
                         ELSE [Accepted(r, "get", u, id) EXCEPT
                                  !.pc = "done", !.status = 200,
                                  !.body = NoteBody(notes[i])]]
    /\ UNCHANGED <<lists, treq, db, ax, users, reg, settings, cx, ex, ox, rx,
                   req, sessions, states, clock, notes, nlog>>

\* GET /notes/{note_id}
get_note(r) ==
    /\ Accepts(r)
    /\ \E u \in Users : \E id \in NoteIds :
          LET i == FindNote(notes, id, u)
          IN  nreq' = [nreq EXCEPT ![r] =
                         IF i = 0
                         THEN [Accepted(r, "get", u, id) EXCEPT
                                  !.pc = "done", !.status = 404]
                         ELSE [Accepted(r, "get", u, id) EXCEPT
                                  !.pc = "done", !.status = 200,
                                  !.body = NoteBody(decrypt_note(
                                      settings.encryption_key, notes[i]))]]
    /\ UNCHANGED <<lists, treq, db, ax, users, reg, settings, cx, ex, ox, rx,
                   req, sessions, states, clock, notes, nlog>>

\* PUT /notes/{note_id}, lines 59-63: the first find_one
update_note_find(r) ==
    /\ Accepts(r) /\ clock < MaxWrites
    /\ \E u \in Users : \E id \in NoteIds : \E nu \in NoteUpdates :
          nreq' = [nreq EXCEPT ![r] =
                     IF FindNote(notes, id, u) = 0
                     THEN [Accepted(r, "update", u, id) EXCEPT
                              !.update = nu, !.pc = "done", !.status = 404]
                     ELSE [Accepted(r, "update", u, id) EXCEPT
                              !.update = nu, !.pc = "updating"]]
    /\ UNCHANGED <<lists, treq, db, ax, users, reg, settings, cx, ex, ox, rx,
                   req, sessions, states, clock, notes, nlog>>

\* {k: v for k, v in note_update.model_dump().items() if v is not None}
\* with updated_at added
UpdateData(note_update, now) ==
    [f \in {k \in DOMAIN note_update : note_update[k] # NoneV}
            \cup {"updated_at"} |->
        IF f = "updated_at" THEN now ELSE note_update[f]]

\* the document after update_one(..., {"$set": fields})
SetFields(doc, fields) ==
    [f \in DOMAIN doc |-> IF f \in DOMAIN fields THEN fields[f] ELSE doc[f]]

update_note_write_whole(r) ==
    /\ nreq[r].pc = "updating"
    /\ \E iv \in IVs :
          LET q == nreq[r]
              i == FindNote(notes, q.note_id, q.user)
              update_data == UpdateData(q.update, clock + 1)
          IN  /\ notes' =
                    IF i = 0 THEN notes
                    ELSE [notes EXCEPT ![i] =
                            encrypt_note(settings.encryption_key,
                               SetFields(decrypt_note(settings.encryption_key,
                                                      notes[i]), update_data),
                               iv)]
              /\ nlog' =
                    IF i = 0 THEN nlog
                    ELSE [nlog EXCEPT ![q.note_id] =
                            [f \in DOMAIN @ |->
                                IF f \in DOMAIN update_data
                                THEN update_data[f] ELSE @[f]]]
    /\ nreq' = [nreq EXCEPT ![r].pc = "reading"]
    /\ clock' = clock + 1
    /\ UNCHANGED <<lists, treq, db, ax, users, reg, settings, cx, ex, ox, rx,
                   req, sessions, states>>

\* PUT /notes/{note_id}, lines 65-71: the fields given are encrypted and
\* update_one sets them on the document that matches id and user_id
update_note_write(r) ==
    /\ nreq[r].pc = "updating"
    /\ \E iv \in IVs :
          LET q == nreq[r]
              i == FindNote(notes, q.note_id, q.user)
              update_data == UpdateData(q.update, clock + 1)
              encrypted_update == encrypt_note(settings.encryption_key,
                                               update_data, iv)
          IN  /\ notes' =
                    IF i = 0 THEN notes
                    ELSE [notes EXCEPT ![i] = SetFields(@, encrypted_update)]
              /\ nlog' =
                    IF i = 0 THEN nlog
                    ELSE [nlog EXCEPT ![q.note_id] =
                            [f \in DOMAIN @ |->
                                IF f \in DOMAIN update_data
                                THEN update_data[f] ELSE @[f]]]
    /\ nreq' = [nreq EXCEPT ![r].pc = "reading"]
    /\ clock' = clock + 1
    /\ UNCHANGED <<lists, treq, db, ax, users, reg, settings, cx, ex, ox, rx,
                   req, sessions, states>>

\* PUT /notes/{note_id}, lines 73-74: the second find_one; decrypt_note of
\* None raises AttributeError, which is answered with 500
update_note_read(r) ==
    /\ nreq[r].pc = "reading"
    /\ LET i == FindNote(notes, nreq[r].note_id, nreq[r].user)
       IN  nreq' = [nreq EXCEPT ![r] =
                      IF i = 0
                      THEN [@ EXCEPT !.pc = "done", !.status = 500,
                                     !.update = NoNote]
                      ELSE [@ EXCEPT !.pc = "done", !.status = 200,
                                     !.update = NoNote,
                                     !.body = NoteBody(decrypt_note(
                                         settings.encryption_key, notes[i]))]]
    /\ UNCHANGED <<lists, treq, db, ax, users, reg, settings, cx, ex, ox, rx,
                   req, sessions, states, clock, notes, nlog>>

\* DELETE /notes/{note_id}
delete_note(r) ==
    /\ Accepts(r)
    /\ \E u \in Users : \E id \in NoteIds :
          LET i == FindNote(notes, id, u)
          IN  IF i = 0
              THEN /\ nreq' = [nreq EXCEPT ![r] =
                                 [Accepted(r, "delete", u, id) EXCEPT
                                     !.pc = "done", !.status = 404]]
                   /\ UNCHANGED <<lists, treq, db, notes, nlog>>
              ELSE /\ nreq' = [nreq EXCEPT ![r] =
                                 [Accepted(r, "delete", u, id) EXCEPT
                                     !.pc = "done", !.status = 200]]
                   /\ notes' = SubSeq(notes, 1, i - 1)
                                  \o SubSeq(notes, i + 1, Len(notes))
                   /\ nlog' = [nlog EXCEPT ![id].deleted = TRUE]
    /\ UNCHANGED <<lists, treq, db, ax, users, reg, settings, cx, ex, ox, rx,
                   req, sessions, states, clock>>

NextNotes ==
    \E r \in Reqs :
       \/ create_note(r)
       \/ get_note(r)
       \/ update_note_find(r)
       \/ update_note_write(r)
       \/ update_note_read(r)
       \/ delete_note(r)

SpecNotes == InitNotes /\ [][NextNotes]_vars

(* -------------------- POST /auth/register, as a machine --------------- *)
MaxUsers == 3

\* the email of a register request: two spellings of one address, another
\* address, and a text that validate_email rejects
EmailInputs == {"a@x.io", "A@x.io", "b@x.io", "no-at-sign"}

\* str.lower()
Lower(email) == IF email = "A@x.io" THEN "a@x.io" ELSE email

validate_email(email) == email # "no-at-sign"

InitAuth ==
    /\ settings = IdleSettings
    /\ cx = IdleCx /\ ex = IdleEx /\ ox = IdleOx /\ IdleTurn
    /\ ax = IdleAx /\ IdleNotes /\ IdleAuth /\ IdleLists /\ db = IdleDb

\* register_with_email, lines 68-77: the format checks, then find_one by
\* the lower-cased email; password_ok is len(request.password) >= 6
register_check(r) ==
    /\ reg[r].pc \in {"idle", "done"} /\ Len(users) < MaxUsers
    /\ \E email \in EmailInputs : \E password_ok \in BOOLEAN :
          reg' = [reg EXCEPT ![r] =
                    IF \/ ~validate_email(email)
                       \/ ~password_ok
                       \/ \E i \in 1..Len(users) : users[i].email = Lower(email)
                    THEN [pc |-> "done", email |-> email, status |-> 400]
                    ELSE [pc |-> "inserting", email |-> email, status |-> 0]]
    /\ UNCHANGED <<lists, treq, db, ax, notes, nreq, nlog, settings, cx, ex,
                   ox, rx, req, sessions, states, clock, users>>

\* register_with_email, lines 79-98: the password is hashed, the User is
\* built with the lower-cased email and a fresh id, insert_one is awaited
\* and the token is returned
register_insert(r) ==
    /\ reg[r].pc = "inserting"
    /\ users' = Append(users, [id |-> Len(users) + 1,
                               email |-> Lower(reg[r].email)])
    /\ reg' = [reg EXCEPT ![r].pc = "done", ![r].status = 200]
    /\ UNCHANGED <<lists, treq, db, ax, notes, nreq, nlog, settings, cx, ex,
                   ox, rx, req, sessions, states, clock>>

NextAuth == \E r \in Reqs : register_check(r) \/ register_insert(r)

SpecAuth == InitAuth /\ [][NextAuth]_vars

(* ------------- PUT /checklists/{date}/items/{id}, as a machine -------- *)
\* a ChecklistItem as stored: its text encrypted
StoredItem(id, completed) ==
    [id |-> id, text |-> <<Tok(1, 1, <<Chr(id)>>)>>, completed |-> completed]

InitToggle ==
    /\ settings = IdleSettings
    /\ cx = IdleCx /\ ex = IdleEx /\ ox = IdleOx /\ IdleTurn
    /\ ax = IdleAx /\ IdleNotes /\ IdleAuth /\ db = IdleDb
    /\ treq = [r \in Reqs |-> IdleTreq]
    /\ \E e, c1, c2 \in BOOLEAN :
          LET items == <<StoredItem("i1", c1), StoredItem("i2", c2)>>
          IN  lists = [exists |-> e, items |-> items, created |-> items]

\* lines 116-120: the first item with the id has its completed negated
FlipItem(items, item_id) ==
    LET hits == {i \in 1..Len(items) : items[i].id = item_id}
    IN  IF hits = {} THEN items
        ELSE LET i == CHOOSE h \in hits : \A g \in hits : h <= g
             IN  [items EXCEPT ![i].completed = ~@]

\* toggle_checklist_item, lines 110-120: find_one is awaited; None is
\* answered 404, otherwise the item is flipped in the document read
toggle_find(r) ==
    /\ treq[r].pc = "idle"
    /\ \E id \in {"i1", "i2", "i3"} :
          treq' = [treq EXCEPT ![r] =
                      IF lists.exists
                      THEN [treq[r] EXCEPT !.pc = "writing", !.item_id = id,
                                           !.items = FlipItem(lists.items, id)]
                      ELSE [treq[r] EXCEPT !.pc = "done", !.item_id = id,
                                           !.status = 404]]
    /\ UNCHANGED <<lists, db, ax, notes, nreq, nlog, users, reg, settings, cx,
                   ex, ox, rx, req, sessions, states, clock>>

\* lines 122-127: update_one(..., {"$set": {"items": items}}) is awaited
toggle_write(r) ==
    /\ treq[r].pc = "writing"
    /\ lists' = [lists EXCEPT !.items = treq[r].items]
    /\ treq' = [treq EXCEPT ![r] =
                   [treq[r] EXCEPT !.pc = "done", !.status = 200,
                                   !.items = <<>>]]
    /\ UNCHANGED <<db, ax, notes, nreq, nlog, users, reg, settings, cx, ex,
                   ox, rx, req, sessions, states, clock>>

NextToggle == \E r \in Reqs : toggle_find(r) \/ toggle_write(r)

SpecToggle == InitToggle /\ [][NextToggle]_vars

(* ------------------- the Database singleton, as a machine ------------- *)
\* connect's default number of attempts
max_retries == 3

\* most calls of check_connection followed
MaxChecks == 3

\* lifespan has called database.connect(); the server answers pings or not
InitDb ==
    /\ settings = IdleSettings
    /\ cx = IdleCx /\ ex = IdleEx /\ ox = IdleOx /\ IdleTurn
    /\ ax = IdleAx /\ IdleNotes /\ IdleAuth /\ IdleLists
    /\ \E u \in BOOLEAN :
          db = [IdleDb EXCEPT !.pc = "connecting", !.up = u]

\* the server starts or stops answering pings
ping_changes ==
    /\ db.pc \in {"connecting", "running"}
    /\ db' = [db EXCEPT !.up = ~@]
    /\ UNCHANGED <<lists, treq, ax, notes, nreq, nlog, users, reg, settings,
                   cx, ex, ox, rx, req, sessions, states, clock>>

\* Database.connect, one pass of the loop of lines 27-51: the client is
\* created and pinged; a ping that answers sets _connected and returns, one
\* that fails is retried, and the last failure clears _connected and
\* returns without raising, the client left in place
connect ==
    /\ db.pc = "connecting" /\ db.attempt < max_retries
    /\ db' = IF db.up
              THEN [db EXCEPT !.client = TRUE, !.connected = TRUE,
                              !.pc = "running"]
              ELSE IF db.attempt < max_retries - 1
              THEN [db EXCEPT !.client = TRUE, !.attempt = @ + 1]
              ELSE [db EXCEPT !.client = TRUE, !.attempt = @ + 1,
                              !.connected = FALSE, !.pc = "running"]
    /\ UNCHANGED <<lists, treq, ax, notes, nreq, nlog, users, reg, settings,
                   cx, ex, ox, rx, req, sessions, states, clock>>

\* Database.check_connection as called by health_check and by require_auth:
\* False at once when _connected is False or there is no client; otherwise
\* the ping's outcome, a failed ping clearing _connected. The caller's
\* answer is logged with whether the server answered pings at the call
check_connection ==
    /\ db.pc = "running" /\ Len(db.log) < MaxChecks
    /\ \E caller \in {"health_check", "require_auth"} :
          LET pinged == db.connected /\ db.client
              result == pinged /\ db.up
              answer == IF caller = "health_check"
                        THEN (IF result THEN "healthy" ELSE "degraded")
                        ELSE (IF result THEN "passed" ELSE "503")
          IN  db' = [db EXCEPT
                       !.connected = IF pinged /\ ~db.up THEN FALSE ELSE @,
                       !.log = Append(@, [up |-> db.up, result |-> result,
                                          caller |-> caller,
                                          answer |-> answer])]
    /\ UNCHANGED <<lists, treq, ax, notes, nreq, nlog, users, reg, settings,
                   cx, ex, ox, rx, req, sessions, states, clock>>

NextDb == ping_changes \/ connect \/ check_connection

SpecDb == InitDb /\ [][NextDb]_vars

(* ------------------- properties of the History Optimizer -------------- *)
Supplied(summary) == ~Falsy(summary)

\* the last n turns of h, as the design states it
LastTurns(h, n) == [i \in 1..n |-> h[Len(h) - n + i]]

\* C1: for every history longer than window_size (chat_history_limit >= 0),
\* with or without a standing summary, the optimizer's context has at most
\* window_size + 1 messages.
C1_ContextBound ==
    (ox.done /\ Len(ox.history) > settings.chat_history_limit)
        => Len(ox.context) <= settings.chat_history_limit + 1

\* C2: for every history longer than refresh_threshold
\* (chat_summarize_after), with or without a standing summary, the
\* optimizer returns needs_refresh = true.
C2_RefreshSignal ==
    (ox.done /\ Len(ox.history) > settings.chat_summarize_after) => ox.need

\* C2 (amended): for every history longer than both refresh_threshold and
\* window_size, with or without a standing summary, needs_refresh = true.
C2_RefreshSignalBeyondWindow ==
    (ox.done /\ Len(ox.history) > settings.chat_summarize_after
             /\ Len(ox.history) > settings.chat_history_limit) => ox.need

C2_Witness ==
    /\ ox.done /\ ox.need /\ Supplied(ox.summary)
    /\ Len(ox.history) > settings.chat_summarize_after
    /\ Len(ox.history) > settings.chat_history_limit

\* C3: for every history no longer than window_size, with or without a
\* standing summary, the optimizer returns the history unchanged (no
\* summary message injected) and needs_refresh = false.
C3_NoOpBelowWindow ==
    (ox.done /\ Len(ox.history) <= settings.chat_history_limit)
        => (ox.context = ox.history /\ ~ox.need)

C3_Witness ==
    /\ ox.done /\ Supplied(ox.summary)
    /\ Len(ox.history) = settings.chat_history_limit
    /\ Len(ox.history) > settings.chat_summarize_after
    /\ ox.context = ox.history /\ ~ox.need

\* C4: for every history longer than window_size the context is exactly
\* the last window_size turns in their order, preceded by exactly one
\* system message carrying the standing summary verbatim when one is
\* supplied, and by nothing otherwise.
C4_WindowExact ==
    (ox.done /\ Len(ox.history) > settings.chat_history_limit)
        => ox.context =
              (IF Supplied(ox.summary)
               THEN <<Msg("system", <<Chr("[Context of past conversation: ")>>
                                    \o ox.summary \o <<Chr("]")>>)>>
               ELSE <<>>)
              \o LastTurns(ox.history, settings.chat_history_limit)

(* ----------------------- properties of the Cipher --------------------- *)
\* C5: for every string s, decrypt(encrypt(s)) = s under the same key.
C5_RoundTrip ==
    (cx.ops = <<"E", "D">>) => (cx.cur = cx.orig /\ ~cx.raised)

C5_Witness ==
    /\ cx.ops = <<"E", "D">> /\ cx.cur = cx.orig
    /\ Len(cx.orig) > 1 /\ cx.orig # NoneV

\* the sensitive field values of an entity, in a fixed order
SensitiveValues(type, e) ==
    CASE type = "note" -> <<e.title, e.content>>
      [] type = "template" -> <<e.name>> \o e.items
      [] type = "checklist" -> [i \in 1..Len(e.items) |-> e.items[i].text]
      [] type = "chat_session" ->
            <<e.title>> \o [i \in 1..Len(e.messages) |-> e.messages[i].content]
      [] type = "state" -> <<e.analysis>>
      [] OTHER -> <<>>

\* C6: for every entity of each type handled by the codec,
\* decrypt_for_read(encrypt_for_storage(e)) equals e field by field:
\* sensitive fields return to their plaintext, nested lists keep length and
\* order, other fields are untouched.
C6_CodecRoundTrip == (ex.pc = "read") => (ex.read = ex.e)

C6_Witness ==
    /\ ex.pc = "read" /\ ex.type = "chat_session"
    /\ Len(ex.e.messages) >= 2
    /\ ex.e.messages[1].content # ex.e.messages[2].content
    /\ ex.stored # ex.e /\ ex.read = ex.e

\* C23: the chat-session codec treats the running summary as a sensitive
\* field in both directions: encrypt_for_storage leaves it in the document as
\* the cipher's output for the digest, and decrypt_for_read returns what
\* decrypt makes of the stored value, so that a session read gives the
\* plaintext digest.
C23_SummaryIsSensitive ==
    (ex.type = "chat_session" /\ "history_summary" \in DOMAIN ex.e) =>
        /\ (ex.pc \in {"stored", "read"}) =>
               IF Falsy(ex.e.history_summary)
               THEN ex.stored.history_summary = ex.e.history_summary
               ELSE /\ Len(ex.stored.history_summary) = 1
                    /\ ex.stored.history_summary[1].k = "tok"
                    /\ ex.stored.history_summary[1].key = settings.encryption_key
                    /\ ex.stored.history_summary[1].pt = ex.e.history_summary
        /\ (ex.pc = "read") =>
               ex.read.history_summary =
                  decrypt(settings.encryption_key, ex.stored.history_summary)

\* x is the output of encrypt under key for some non-empty plaintext
ProducedUnder(key, x) == Len(x) = 1 /\ x[1].k = "tok" /\ x[1].key = key

CarriesEnvelopeOf(key, x) ==
    LET kept == SelectSeq(x, LAMBDA s : ~(s.k = "chr" /\ s.c \in {"!", " "}))
    IN Len(kept) = 1 /\ kept[1].k = "tok" /\ kept[1].key = key

C8_EmptyIdentity ==
    /\ (cx.orig = <<>>) => (cx.cur = <<>> /\ ~cx.raised)
    /\ (ex.pc \in {"stored", "read"}) =>
          \A i \in 1..Len(SensitiveValues(ex.type, ex.e)) :
             SensitiveValues(ex.type, ex.e)[i] = <<>> =>
                 /\ SensitiveValues(ex.type, ex.stored)[i] = <<>>
                 /\ ex.pc = "read" => SensitiveValues(ex.type, ex.read)[i] = <<>>

C8_Witness ==
    \/ cx.orig = <<>> /\ cx.ops = <<"E", "D">> /\ cx.cur = <<>>
    \/ /\ ex.pc = "read" /\ ex.type = "note"
       /\ ex.e.title = <<>> /\ ex.e.content # <<>>
       /\ ex.stored.title = <<>> /\ ex.stored.content # ex.e.content


(* ------------------ properties of the reflection turn ----------------- *)
\* C9: if the summarizer's model call fails or returns an empty digest, the
\* turn still delivers the main model's reply (only a failure of the main
\* call ends it without one) and the standing summary it reports is the one
\* the caller supplied.
C9_SummarizerFailureIsHarmless ==
    (rx.sum_called /\ rx.sum_outcome \in {"raised", "empty"}) =>
        /\ rx.pc \in {"calling", "done", "persisted", "raised"}
        /\ rx.pc = "raised" => rx.main_outcome = "raised"
        /\ rx.pc \in {"done", "persisted"} =>
              /\ rx.result.response = Strip(RemoveMarker(rx.response))
              /\ rx.result.history_summary = rx.history_summary

C9_Witness ==
    /\ rx.pc = "done" /\ rx.sum_called /\ rx.sum_outcome = "raised"
    /\ rx.history_summary = <<Chr("S")>>
    /\ rx.result.history_summary = rx.history_summary
    /\ rx.result.response = <<Chr("r")>>


(* --------------------- properties of the chat turn -------------------- *)
\* C10: a turn whose core reply could not be produced (the completion call
\* raised, or an exception left the code that produces the reply) ends as
\* one request failure without a reply: nothing is appended to a session,
\* no summary and no state snapshot is written, and the completion call for
\* the reply is made at most once.
C10_ReplyFailureIsRequestFailure ==
    /\ \A r \in Reqs :
          req[r].reply_failed =>
             /\ req[r].pc = "failed" /\ req[r].status = 500
             /\ req[r].result.response = NoneV
             /\ req[r].writes = {}
             /\ req[r].main_calls <= 1
    /\ (\A r \in Reqs : req[r].pc \in {"idle", "failed"})
          => (sessions = InitSessions /\ states = <<>>)

C10_Witness ==
    \E r \in Reqs :
       /\ req[r].route = "server" /\ req[r].reply_failed
       /\ req[r].main_calls = 1 /\ req[r].status = 500
       /\ req[r].session_id = "s1" /\ req[r].update_state
       /\ settings.openai_api_key
       /\ sessions["s1"].messages = <<>> /\ states = <<>>

\* C11: when update_state is requested and the state analysis fails at any
\* step (the analysis call raises, its output does not parse, building or
\* inserting the snapshot raises), the turn still ends successfully with the
\* chat reply, and its response carries no state snapshot; no snapshot was
\* stored by that turn.
C11_StateFailureIsNotFatal ==
    \A r \in Reqs :
       req[r].state_failed =>
          /\ req[r].update_state
          /\ req[r].pc = "done" /\ req[r].status = 200
          /\ req[r].result.response # NoneV
          /\ ~req[r].result.state_updated
          /\ "snapshot" \notin req[r].writes

C11_Witness ==
    \E r \in Reqs :
       /\ req[r].state_failed /\ req[r].update_state
       /\ req[r].status = 200 /\ req[r].session_id = "s1"
       /\ req[r].result.response = <<Chr("r")>>
       /\ ~req[r].result.state_updated
       /\ Len(sessions["s1"].messages) >= 2
       /\ states = <<>>

\* stored is what encrypt leaves in the database for the text plain: one
\* envelope under the key that carries plain, or plain itself when empty
StoredAs(key, plain, stored) ==
    IF Falsy(plain) THEN stored = plain
    ELSE ProducedUnder(key, stored) /\ stored[1].pt = plain

C17_NoKeyIsUnavailable ==
    \A r \in Reqs :
       (~settings.openai_api_key /\ req[r].route \in {"app", "server"}
        /\ req[r].pc \in {"done", "failed"}) =>
          (req[r].pc = "failed" /\ req[r].status = 503)

\* C22: a turn accepts an optional caller-supplied standing summary and
\* hands it to the History Optimizer, whose context goes to the model;
\* supplying or omitting the summary never by itself makes the request fail:
\* every turn that has ended, with or without a summary in its body, has
\* submitted its context to the model.
C22_StandingSummaryAccepted ==
    \A r \in Reqs :
       (req[r].route \in {"app", "server"}
        /\ req[r].pc \in {"done", "failed"}) => (req[r].main_calls > 0)

(* ------------------- properties of the reply text --------------------- *)
\* C13: for every text the model returns, the reply text of the turn does
\* not contain the marker [SUGGEST_CHECKLIST], and suggest_checklist is
\* true exactly when the model's text contained the marker.
C13_MarkerStripped ==
    (rx.pc = "done") =>
        /\ ~HasMarker(rx.result.response)
        /\ rx.result.suggest_checklist = HasMarker(rx.response)


(* --------------------- properties of ownership ------------------------ *)
\* C14: no operation of an authenticated user touches an entity of another
\* user; in particular a chat turn submitted by U with session_id S has
\* appended turns to S only if S is owned by U.
C14_OwnerOnly ==
    \A r \in Reqs :
       ("turns" \in req[r].writes) =>
          sessions[req[r].session_id].user_id = req[r].user


(* ------------------- properties of the State Analyzer ----------------- *)
\* the positions of ch in the text t
Positions(t, ch) == {i \in 1..Len(t) : t[i].k = "chr" /\ t[i].c = ch}

Least(S) == CHOOSE i \in S : \A j \in S : i <= j

Greatest(S) == CHOOSE i \in S : \A j \in S : j <= i

C16_MissingMetricsDefault ==
    (ax.pc \in {"built", "skipped"} /\ ax.state_data # NoneV) =>
        /\ ax.pc = "built"
        /\ \A f \in MetricFields :
              ax.record.metrics[f] =
                 IF f \in DOMAIN ax.supplied THEN ax.supplied[f] ELSE 5


\* C28: every snapshot that is built for storage has all ten metrics within
\* [0, 10], whatever numbers the model's JSON contained.
C28_MetricsInRange ==
    (ax.pc = "built") =>
        \A f \in MetricFields :
           ax.record.metrics[f] >= 0 /\ ax.record.metrics[f] <= 10

(* ----------------------- properties of the notes ---------------------- *)
\* C18: a partial note update overwrites, with a fresh encryption of the
\* value given, only the sensitive fields present in the update; every
\* sensitive field omitted from it keeps its stored ciphertext, and no
\* other note changes.
C18_PartialUpdate ==
    [][\A r \in Reqs :
          (nreq[r].pc = "updating" /\ nreq'[r].pc = "reading") =>
             LET q == nreq[r]
                 i == FindNote(notes, q.note_id, q.user)
             IN  IF i = 0 THEN notes' = notes
                 ELSE /\ Len(notes') = Len(notes)
                      /\ \A j \in 1..Len(notes) : j # i => notes'[j] = notes[j]
                      /\ \A f \in {"title", "content"} :
                            IF q.update[f] = NoneV
                            THEN notes'[i][f] = notes[i][f]
                            ELSE StoredAs(settings.encryption_key,
                                          q.update[f], notes'[i][f])]_vars

\* only the content was sent: the title still carries the IV of the create
C18_Witness ==
    \E r \in Reqs :
       /\ nreq[r].pc = "reading"
       /\ nreq[r].update.title = NoneV /\ nreq[r].update.content = <<Chr("a")>>
       /\ Len(notes) = 1
       /\ notes[1].title = <<Tok(settings.encryption_key, 1, <<Chr("a")>>)>>
       /\ notes[1].content = <<Tok(settings.encryption_key, 2, <<Chr("a")>>)>>

\* C20: for a note created by a user, a get by id by its owner returns the
\* title and content most recently written by create or update, in
\* plaintext, and once a delete has succeeded every get of that id returns
\* 404.
C20_GetReturnsLatest ==
    [][\A r \in Reqs :
          (nreq'[r] # nreq[r] /\ nreq'[r].op = "get") =>
             LET q == nreq'[r]
                 id == q.note_id
             IN  (id \in DOMAIN nlog /\ nlog[id].owner = q.user) =>
                    IF nlog[id].deleted THEN q.status = 404
                    ELSE /\ q.status = 200
                         /\ q.body.title = nlog[id].title
                         /\ q.body.content = nlog[id].content]_vars

\* a get after an update answered with the updated title, a get after the
\* delete answered 404
C20_Witness ==
    \E r1, r2 \in Reqs :
       /\ r1 # r2 /\ "n1" \in DOMAIN nlog /\ nlog["n1"].deleted /\ clock >= 2
       /\ nreq[r1].op = "get" /\ nreq[r1].user = nlog["n1"].owner
       /\ nreq[r1].status = 200
       /\ nreq[r1].body.title = <<Chr("a")>>
       /\ nreq[r1].body.title = nlog["n1"].title
       /\ nreq[r2].op = "get" /\ nreq[r2].user = nlog["n1"].owner
       /\ nreq[r2].status = 404


(* -------------------- properties of the registration ------------------ *)
\* C19: after any interleaving of register requests there is at most one
\* user record for each lower-cased email; a register request for an email
\* that already has a user is answered 400 and creates no user.
C19_OneUserPerEmail ==
    \A i, j \in 1..Len(users) : users[i].email = users[j].email => i = j

C25_SummarizerOnlyOnTail ==
    LET h == rx.history
        n == Len(h) - settings.chat_history_limit
        tail == [i \in 1..(IF n > 0 THEN n ELSE 0) |-> h[i]]
    IN  (rx.pc = "summarizing" \/ rx.sum_outcome # "none") =>
           /\ rx.need
           /\ tail # <<>>
           /\ rx.tail = tail
           /\ \A i \in 1..Len(rx.tail) : \A j \in (n + 1)..Len(h) :
                  rx.tail[i] # h[j]

C25_Witness ==
    /\ rx.pc = "done" /\ rx.sum_outcome = "ok"
    /\ Len(rx.history) = 5 /\ settings.chat_history_limit = 3
    /\ rx.tail = <<rx.history[1], rx.history[2]>>

C26_TurnsAppendOnly ==
    [][\A sid \in SessionIds :
          LET old == sessions[sid].messages
              new == sessions'[sid].messages
          IN  /\ Len(new) >= Len(old)
              /\ SubSeq(new, 1, Len(old)) = old]_vars

C26_Witness ==
    \E r1, r2 \in Reqs :
       /\ req[r1].route = "update_session_title" /\ req[r1].status = 200
       /\ req[r1].session_id = "s1"
       /\ req[r2].route = "server" /\ "turns" \in req[r2].writes
       /\ req[r2].session_id = "s1"
       /\ req[r1].stamp > req[r2].stamp
       /\ Len(sessions["s1"].messages) = 2
       /\ sessions["s1"].title # <<>>
       /\ sessions["s1"].updated_at = req[r1].stamp

C29_ConcurrentTogglesBothFlip ==
    \A r1, r2 \in Reqs :
       (/\ r1 # r2
        /\ treq[r1].pc = "done" /\ treq[r1].status = 200
        /\ treq[r2].pc = "done" /\ treq[r2].status = 200
        /\ {treq[r1].item_id, treq[r2].item_id} = {"i1", "i2"}
       ) =>
          \A i \in 1..Len(lists.items) :
             /\ lists.items[i].text = lists.created[i].text
             /\ lists.items[i].completed = ~lists.created[i].completed

(* ------------------- properties of the database connection ------------ *)
\* C30: whenever the database answers a ping successfully at the time of
\* the call, Database.check_connection reports it as connected (so the
\* health check reports healthy and require_auth does not return 503),
\* including after an earlier ping failure or a failed startup connect.
C30_ReachableIsReportedConnected ==
    \A i \in 1..Len(db.log) :
       db.log[i].up =>
          /\ db.log[i].result
          /\ db.log[i].answer \in {"healthy", "passed"}

====
